---- MODULE Spec2Model ----
(***************************************************************************)
(* Model of cip_python/phenotypes/parenchyma_phenotypes.py:                *)
(* the ParenchymaPhenotypes engine (constructor, execute, add_pheno_group) *)
(* together with the collaborators it calls (RegionTypeParser,             *)
(* ChestConventions, Phenotypes.add_pheno), which are modelled at their    *)
(* interface.                                                              *)
(*                                                                         *)
(* Conventions.  An optional Python argument is a sequence of length 0     *)
(* (None) or 1 (the value).  A volume is a record [shape, data]: shape is  *)
(* the numpy shape, data the values of the leading voxels in flat (C)      *)
(* order; every voxel after those holds the background value.  A mask is   *)
(* a record [shape, idx] with idx the set of flat indices that are True.   *)
(* A phenotype value is a record [tag, a, b, s].                           *)
(***************************************************************************)
EXTENDS Integers, Sequences, FiniteSets, TLC

VARIABLES
    engine,     \* "new" | "ready" | "failed": state of the constructor
    ctorErr,    \* exception raised by __init__ ("ok" when none)
    ctorArgs,   \* the arguments __init__ was called with
    chest_regions_, chest_types_, pairs_, requested_pheno_names,
    cid_,       \* self.cid_
    spacing_,   \* self._spacing
    df,         \* self._df: the results table, a sequence of rows
    frame       \* the last execute call: its arguments and its outcome

vars == <<engine, ctorErr, ctorArgs, chest_regions_, chest_types_, pairs_,
          requested_pheno_names, cid_, spacing_, df, frame>>

----------------------------------------------------------------------------
(* Bounds of the model *)

\* execute is called only on a table of at most MaxRows rows
MaxRows == 1

----------------------------------------------------------------------------
(* Python values *)

None == <<>>
Some(x) == <<x>>
IsNone(o) == Len(o) = 0
Get(o) == o[1]

Last(s) == s[Len(s)]

IsPrefix(s, t) == Len(s) <= Len(t) /\ SubSeq(t, 1, Len(s)) = s

RECURSIVE SumSeq(_)
SumSeq(s) == IF Len(s) = 0 THEN 0 ELSE s[1] + SumSeq(Tail(s))

RECURSIVE ProdSeq(_)
ProdSeq(s) == IF Len(s) = 0 THEN 1 ELSE s[1] * ProdSeq(Tail(s))

MinOf(s) == CHOOSE x \in {s[i] : i \in DOMAIN s} : \A i \in DOMAIN s : x <= s[i]
MaxOf(s) == CHOOSE x \in {s[i] : i \in DOMAIN s} : \A i \in DOMAIN s : x >= s[i]

\* ascending sort (np.sort / np.unique order)
RECURSIVE Insert(_, _)
Insert(x, s) ==
    IF Len(s) = 0 THEN <<x>>
    ELSE IF x <= s[1] THEN <<x>> \o s
    ELSE <<s[1]>> \o Insert(x, Tail(s))

RECURSIVE Sorted(_)
Sorted(s) == IF Len(s) = 0 THEN <<>> ELSE Insert(s[1], Sorted(Tail(s)))

RECURSIVE SetToSorted(_)
SetToSorted(S) ==
    IF S = {} THEN <<>>
    ELSE LET m == CHOOSE x \in S : \A y \in S : x <= y
         IN  <<m>> \o SetToSorted(S \ {m})

----------------------------------------------------------------------------
(* Volumes *)

\* value of every voxel the data of a volume does not list
Background == [hu |-> 0, label |-> <<0, 0>>]

NumVoxels(vol) == ProdSeq(vol.shape)

CtAt(ct, i) == IF i <= Len(ct.data) THEN ct.data[i] ELSE Background.hu
LabelAt(lm, i) == IF i <= Len(lm.data) THEN lm.data[i] ELSE Background.label

\* numpy broadcasting of two shapes of the same rank
Broadcastable(s1, s2) ==
    /\ Len(s1) = Len(s2)
    /\ \A i \in DOMAIN s1 : s1[i] = s2[i] \/ s1[i] = 1 \/ s2[i] = 1

\* values of ct, in flat order, at the indices in idx that are <= n
RECURSIVE Gather(_, _, _)
Gather(ct, idx, n) ==
    IF n = 0 THEN <<>>
    ELSE IF n \in idx THEN Append(Gather(ct, idx, n - 1), CtAt(ct, n))
    ELSE Gather(ct, idx, n - 1)

\* ct[mask] for a mask of the shape of ct
Masked(ct, mask) == Gather(ct, mask.idx, NumVoxels(ct))

CountLE(v, t) == Cardinality({i \in DOMAIN v : v[i] <= t})
CountGE(v, t) == Cardinality({i \in DOMAIN v : v[i] >= t})

\* ndarray.clip(lo)
Clip(v, lo) == [i \in DOMAIN v |-> IF v[i] < lo THEN lo ELSE v[i]]

----------------------------------------------------------------------------
(* Phenotype values *)

Val(tag, a, b, s) == [tag |-> tag, a |-> a, b |-> b, s |-> s]
Num(x) == Val("num", x, 1, <<>>)
Frac(x, y) == Val("frac", x, y, <<>>)
NaN == Val("nan", 0, 0, <<>>)
\* a statistic kept symbolic: the named estimator applied to sample s
Stat(name, s) == Val(name, 0, 0, Sorted(s))

\* outcome of one add_pheno_group call
Row(v) == [kind |-> "row", val |-> v, err |-> "ok"]
NoRow == [kind |-> "none", val |-> NaN, err |-> "ok"]
Raise(e) == [kind |-> "raise", val |-> NaN, err |-> e]

\* np.percentile(v, q) of a non-empty sample, linear interpolation; in 1/100
Percentile(v, q) ==
    LET s == Sorted(v)
        k == (Len(v) - 1) * q
        lo == (k \div 100) + 1
        r == k % 100
    IN  IF r = 0 THEN Frac(100 * s[lo], 100)
        ELSE Frac(100 * s[lo] + r * (s[lo + 1] - s[lo]), 100)

\* np.median of a non-empty sample
Median(v) ==
    LET s == Sorted(v)
        n == Len(v)
    IN  IF n % 2 = 1 THEN Num(s[(n + 1) \div 2])
        ELSE Frac(s[n \div 2] + s[(n \div 2) + 1], 2)

\* scipy.stats.mode(v)[0][0] of a non-empty sample: the smallest most frequent
Mode(v) ==
    LET Freq(x) == Cardinality({i \in DOMAIN v : v[i] = x})
        vals == {v[i] : i \in DOMAIN v}
        best == {x \in vals : \A y \in vals : Freq(y) <= Freq(x)}
    IN  Num(CHOOSE x \in best : \A y \in best : x <= y)

----------------------------------------------------------------------------
(* Phenotype catalog *)

declare_pheno_names ==
    <<"LAA950", "LAA910", "LAA856", "HAA700", "HAA600", "HAA500",
      "HAA250", "Perc10", "Perc15", "HUMean", "HUStd", "HUKurtosis",
      "HUSkewness", "HUMode", "HUMedian", "HUMin", "HUMax",
      "HUMean500", "HUStd500", "HUKurtosis500", "HUSkewness500",
      "HUMode500", "HUMedian500", "HUMin500", "HUMax500", "Volume",
      "Mass">>

\* Phenotypes.__init__: self.pheno_names_ = self.declare_pheno_names()
pheno_names_ == declare_pheno_names

InCatalog(n) == \E i \in DOMAIN pheno_names_ : pheno_names_[i] = n

\* behaviours of the numeric libraries on an empty sample that differ between
\* installations: "nan" (a warning and NaN) or "raise" (an exception)
LibBehaviours == {"nan", "raise"}

----------------------------------------------------------------------------
(* add_pheno_group: the value of one phenotype over one mask *)

\* ct[mask]: boolean indexing needs a mask of the shape of ct
IndexErr(ct, mask) == IF ct.shape = mask.shape THEN "ok" ELSE "IndexError"

\* the shape two broadcastable shapes are broadcast to
BroadcastShape(s1, s2) ==
    [i \in DOMAIN s1 |-> IF s1[i] = 1 THEN s2[i] ELSE s1[i]]

\* the coordinate along axis a (from 0) of the voxel of flat index n (from 1)
Stride(shape, a) == ProdSeq(SubSeq(shape, a + 1, Len(shape)))
Coord(shape, n, a) == ((n - 1) \div Stride(shape, a)) % shape[a]

\* the mask broadcast to shape: an axis of length 1 is repeated
BroadcastMask(mask, shape) ==
    IF mask.shape = shape THEN mask
    ELSE [shape |-> shape,
          idx |-> {n \in 1..ProdSeq(shape) :
                     1 + SumSeq([a \in DOMAIN shape |->
                                   IF mask.shape[a] = 1 THEN 0
                                   ELSE Coord(shape, n, a)
                                          * Stride(mask.shape, a)])
                       \in mask.idx}]

\* ct[np.logical_and(mask, ct <op> t)]: the operands are broadcast first, and
\* the result indexes ct only if it has the shape of ct
LogicalErr(ct, mask) ==
    IF ~Broadcastable(ct.shape, mask.shape) THEN "ValueError"
    ELSE IF BroadcastShape(ct.shape, mask.shape) # ct.shape THEN "IndexError"
    ELSE "ok"

\* faulty variant of ThresholdFraction: the quotient is scaled to a percentage
ThresholdPercentage(count, mask_sum, lib) ==
    IF mask_sum = 0
    THEN IF lib = "raise" THEN Raise("ZeroDivisionError") ELSE Row(NaN)
    ELSE Row(Frac(100 * count, mask_sum))

\* float(np.sum(ct[mask] <op> t))/mask_sum
ThresholdFraction(count, mask_sum, lib) ==
    IF mask_sum = 0
    THEN IF lib = "raise" THEN Raise("ZeroDivisionError") ELSE Row(NaN)
    ELSE Row(Frac(count, mask_sum))

\* the statistics over ct[mask]
PlainStatistic(pheno_name, v, lib) ==
    CASE pheno_name \in {"Perc15", "Perc10"} ->
            IF Len(v) = 0
            THEN IF lib = "raise" THEN Raise("IndexError") ELSE Row(NaN)
            ELSE Row(Percentile(v, IF pheno_name = "Perc15" THEN 15 ELSE 10))
      [] pheno_name = "HUMean" ->
            IF Len(v) = 0 THEN Row(NaN) ELSE Row(Frac(SumSeq(v), Len(v)))
      [] pheno_name = "HUStd" ->
            IF Len(v) = 0 THEN Row(NaN) ELSE Row(Stat("std", v))
      [] pheno_name = "HUKurtosis" ->
            IF Len(v) = 0 THEN Row(NaN) ELSE Row(Stat("kurtosis", v))
      [] pheno_name = "HUSkewness" ->
            IF Len(v) = 0 THEN Row(NaN) ELSE Row(Stat("skew", v))
      [] pheno_name = "HUMode" ->
            IF Len(v) = 0 THEN Raise("IndexError") ELSE Row(Mode(v))
      [] pheno_name = "HUMedian" ->
            IF Len(v) = 0 THEN Row(NaN) ELSE Row(Median(v))
      [] pheno_name = "HUMin" ->
            IF Len(v) = 0 THEN Raise("ValueError") ELSE Row(Num(MinOf(v)))
      [] pheno_name = "HUMax" ->
            IF Len(v) = 0 THEN Raise("ValueError") ELSE Row(Num(MaxOf(v)))

\* faulty variant of Restricted500: hus.shape[0] is not tested, and the
\* statistic of an empty sample (NaN) becomes the value
Restricted500Unguarded(pheno_name, hus) ==
    IF Len(hus) = 0 THEN Row(NaN)
    ELSE CASE pheno_name = "HUMean500" -> Row(Frac(SumSeq(hus), Len(hus)))
           [] pheno_name = "HUStd500" -> Row(Stat("std", hus))
           [] pheno_name = "HUKurtosis500" -> Row(Stat("kurtosis", hus))
           [] pheno_name = "HUSkewness500" -> Row(Stat("skew", hus))
           [] pheno_name = "HUMode500" -> Row(Mode(hus))
           [] pheno_name = "HUMedian500" -> Row(Median(hus))
           [] pheno_name = "HUMin500" -> Row(Num(MinOf(hus)))
           [] pheno_name = "HUMax500" -> Row(Num(MaxOf(hus)))

\* the statistics over hus = ct[np.logical_and(mask, ct <= -500)],
\* computed only if hus.shape[0] > 0
Restricted500(pheno_name, hus) ==
    IF Len(hus) = 0 THEN NoRow
    ELSE CASE pheno_name = "HUMean500" -> Row(Frac(SumSeq(hus), Len(hus)))
           [] pheno_name = "HUStd500" -> Row(Stat("std", hus))
           [] pheno_name = "HUKurtosis500" -> Row(Stat("kurtosis", hus))
           [] pheno_name = "HUSkewness500" -> Row(Stat("skew", hus))
           [] pheno_name = "HUMode500" -> Row(Mode(hus))
           [] pheno_name = "HUMedian500" -> Row(Median(hus))
           [] pheno_name = "HUMin500" -> Row(Num(MinOf(hus)))
           [] pheno_name = "HUMax500" -> Row(Num(MaxOf(hus)))

\* faulty variant of VolumeValue: the product is converted from mm^3 to litres
VolumeValueInLitres(spacing, mask_sum) ==
    Frac(ProdSeq(spacing) * mask_sum, 1000000)

\* np.prod(self._spacing)*float(mask_sum)
VolumeValue(spacing, mask_sum) == Num(ProdSeq(spacing) * mask_sum)

\* faulty variant of MassValue: the second interval starts above -98, so a
\* voxel of exactly -98 HU is in no interval
MassValueGap(v, spacing) ==
    LET h1 == Clip(SelectSeq(v, LAMBDA x : x < -98), -1000)
        h2 == SelectSeq(v, LAMBDA x : x > -98 /\ x <= 18)
        h3 == SelectSeq(v, LAMBDA x : x > 18 /\ x <= 100)
        h4 == SelectSeq(v, LAMBDA x : x > 100)
    IN  Val("mass", ProdSeq(spacing), 0,
            <<Len(h1), SumSeq(h1), Len(h2), SumSeq(h2),
              Len(h3), SumSeq(h3), Len(h4), SumSeq(h4)>>)

\* The mass is a sum over four HU intervals; interval k contributes
\*   sum((m_k*HU + b_k) * np.prod(spacing) * 0.001)  over its voxels,
\* which the value records as the number n_k and the HU sum S_k of the
\* voxels of the interval: s = <<n1, S1, n2, S2, n3, S3, n4, S4>>, a = the
\* voxel volume.  An interval without voxels is skipped and contributes 0.
MassValue(v, spacing) ==
    LET h1 == Clip(SelectSeq(v, LAMBDA x : x < -98), -1000)
        h2 == SelectSeq(v, LAMBDA x : x >= -98 /\ x <= 18)
        h3 == SelectSeq(v, LAMBDA x : x > 18 /\ x <= 100)
        h4 == SelectSeq(v, LAMBDA x : x > 100)
    IN  Val("mass", ProdSeq(spacing), 0,
            <<Len(h1), SumSeq(h1), Len(h2), SumSeq(h2),
              Len(h3), SumSeq(h3), Len(h4), SumSeq(h4)>>)

ThresholdNames ==
    {"LAA950", "LAA910", "LAA856", "HAA700", "HAA600", "HAA500", "HAA250"}
PlainNames ==
    {"Perc15", "Perc10", "HUMean", "HUStd", "HUKurtosis", "HUSkewness",
     "HUMode", "HUMedian", "HUMin", "HUMax"}
Names500 ==
    {"HUMean500", "HUStd500", "HUKurtosis500", "HUSkewness500",
     "HUMode500", "HUMedian500", "HUMin500", "HUMax500"}

\* faulty variant of NameCheck: the assertion is missing
NameCheckOff(pheno_name) == "ok"

\* assert pheno_name in self.pheno_names_, "Invalid phenotype name"
NameCheck(pheno_name) ==
    IF InCatalog(pheno_name) THEN "ok" ELSE "Invalid phenotype name"

\* The outcome of add_pheno_group(ct, mask, ., ., pheno_name): the row value
\* handed to add_pheno, no row (pheno_val is None), or the exception raised.
PhenoOutcome(ct, mask, pheno_name, spacing, lib) ==
    LET mask_sum == Cardinality(mask.idx)
        v == Masked(ct, mask)
        both == Masked(ct, BroadcastMask(mask, ct.shape))
    IN  IF NameCheck(pheno_name) # "ok" THEN Raise(NameCheck(pheno_name))
        ELSE CASE pheno_name \in ThresholdNames ->
                    IF IndexErr(ct, mask) # "ok" THEN Raise(IndexErr(ct, mask))
                    ELSE ThresholdFraction(
                           CASE pheno_name = "LAA950" -> CountLE(v, -950)
                             [] pheno_name = "LAA910" -> CountLE(v, -910)
                             [] pheno_name = "LAA856" -> CountLE(v, -856)
                             [] pheno_name = "HAA700" -> CountGE(v, -700)
                             [] pheno_name = "HAA600" -> CountGE(v, -600)
                             [] pheno_name = "HAA500" -> CountGE(v, -500)
                             [] pheno_name = "HAA250" -> CountGE(v, -250),
                           mask_sum, lib)
               [] pheno_name \in PlainNames ->
                    IF IndexErr(ct, mask) # "ok" THEN Raise(IndexErr(ct, mask))
                    ELSE PlainStatistic(pheno_name, v, lib)
               [] pheno_name \in Names500 ->
                    IF LogicalErr(ct, mask) # "ok" THEN Raise(LogicalErr(ct, mask))
                    ELSE Restricted500(pheno_name,
                                       SelectSeq(both, LAMBDA x : x <= -500))
               [] pheno_name = "Volume" -> Row(VolumeValue(spacing, mask_sum))
               [] pheno_name = "Mass" ->
                    IF LogicalErr(ct, mask) # "ok" THEN Raise(LogicalErr(ct, mask))
                    ELSE Row(MassValue(both, spacing))
               [] OTHER -> NoRow

----------------------------------------------------------------------------
(* Collaborators: RegionTypeParser, ChestConventions, Phenotypes.add_pheno *)

Indices(lm) == 1..NumVoxels(lm)

\* the distinct region codes of the label map, ascending
get_all_chest_regions(lm) ==
    SetToSorted({LabelAt(lm, i)[1] : i \in Indices(lm)})

\* the distinct type codes of the label map, ascending
get_chest_types(lm) ==
    SetToSorted({LabelAt(lm, i)[2] : i \in Indices(lm)})

\* the distinct (region, type) pairs of the label map, ascending
get_all_pairs(lm) ==
    LET codes == SetToSorted({LabelAt(lm, i)[1] * 256 + LabelAt(lm, i)[2] :
                              i \in Indices(lm)})
    IN  [k \in DOMAIN codes |-> <<codes[k] \div 256, codes[k] % 256>>]

\* the voxels whose label matches the region and the type that are given
get_mask(lm, chest_region, chest_type) ==
    [shape |-> lm.shape,
     idx |-> {i \in Indices(lm) :
                /\ IsNone(chest_region) \/ LabelAt(lm, i)[1] = Get(chest_region)
                /\ IsNone(chest_type) \/ LabelAt(lm, i)[2] = Get(chest_type)}]

GetChestRegionName(r) == [axis |-> "region", code |-> r]
GetChestTypeName(t) == [axis |-> "type", code |-> t]
GetChestWildCardName == [axis |-> "wildcard", code |-> 0]

\* add_pheno([chest_region, chest_type], pheno_name, pheno_val): one more row
add_pheno(table, cid, chest_region, chest_type, pheno_name, pheno_val) ==
    Append(table, [cid |-> cid, region |-> chest_region, type |-> chest_type,
                   pheno |-> pheno_name, val |-> pheno_val])

----------------------------------------------------------------------------
(* ParenchymaPhenotypes.__init__ *)

\* np.max(a) > 255 or np.min(a) < 0; np.max of an empty array raises
RangeError(a) ==
    IF Len(a) = 0 THEN "ValueError"
    ELSE IF MaxOf(a) > 255 \/ MinOf(a) < 0 THEN "ValueError"
    ELSE "ok"

\* The check made when pairs are given reads chest_types, not pairs.  With
\* chest_types None, np.min(None) is None: under Python 2 None < 0 is True
\* and the ValueError is raised, under Python 3 the comparison is a TypeError.
PairsError(chest_types, pairs) ==
    IF IsNone(chest_types) THEN {"ValueError", "TypeError"}
    ELSE {RangeError(Get(chest_types))}

\* the exceptions __init__ can end with ("ok": none)
InitOutcomes(chest_regions, chest_types, pairs) ==
    IF ~IsNone(chest_regions) /\ RangeError(Get(chest_regions)) # "ok"
    THEN {RangeError(Get(chest_regions))}
    ELSE IF ~IsNone(chest_types) /\ RangeError(Get(chest_types)) # "ok"
    THEN {RangeError(Get(chest_types))}
    ELSE IF ~IsNone(pairs) THEN PairsError(chest_types, pairs)
    ELSE {"ok"}

----------------------------------------------------------------------------
(* ParenchymaPhenotypes.execute *)

\* the two assertions on the shapes at the entry of execute
CheckDimensions(ct, lm) ==
    IF Len(ct.shape) # Len(lm.shape)
    THEN "CT and label map are not the same dimension"
    ELSE IF \E i \in 1..Len(ct.shape) : ct.shape[1] # lm.shape[1]
    THEN "Disagreement in CT and label map dimension"
    ELSE "ok"

\* assert type(cid) == str
CheckCid(cid) == IF cid.isStr THEN "ok" ELSE "cid must be a string"

\* faulty variant of ResolvePhenos: the names are put in catalog order
ResolvePhenosCatalogOrder(pheno_names, requested) ==
    LET asked == IF ~IsNone(pheno_names) THEN Get(pheno_names)
                 ELSE IF ~IsNone(requested) THEN Get(requested)
                 ELSE pheno_names_
        known == SelectSeq(pheno_names_,
                           LAMBDA n : \E i \in DOMAIN asked : asked[i] = n)
        unknown == SelectSeq(asked, LAMBDA n : ~InCatalog(n))
    IN  known \o unknown

\* phenos_to_compute
ResolvePhenos(pheno_names, requested) ==
    IF ~IsNone(pheno_names) THEN Get(pheno_names)
    ELSE IF ~IsNone(requested) THEN Get(requested)
    ELSE pheno_names_

\* faulty variant of ResolveSelector: the constructor's value comes first
ResolveSelectorCtorFirst(arg, ctor) ==
    IF ~IsNone(ctor) THEN ctor
    ELSE IF ~IsNone(arg) THEN arg
    ELSE None

\* rs, ts, ps: the argument of the call, else the constructor's, else None
ResolveSelector(arg, ctor) ==
    IF ~IsNone(arg) THEN arg
    ELSE IF ~IsNone(ctor) THEN ctor
    ELSE None

\* faulty variant of NothingSpecified: "or" in the place of "and"
NothingSpecifiedAny(rs, ts, ps) == IsNone(rs) \/ IsNone(ts) \/ IsNone(ps)

\* rs == None and ts == None and ps == None (a selector that is given
\* compares unequal to None)
NothingSpecified(rs, ts, ps) == IsNone(rs) /\ IsNone(ts) /\ IsNone(ps)

\* rs, ts, ps after the fallback to everything in the label map
Effective(rs, ts, ps, lm) ==
    IF NothingSpecified(rs, ts, ps)
    THEN [rs |-> Some(get_all_chest_regions(lm)),
          ts |-> Some(get_chest_types(lm)),
          ps |-> Some(get_all_pairs(lm))]
    ELSE [rs |-> rs, ts |-> ts, ps |-> ps]

Group(kind, pos, r, t, region, type, bound) ==
    [kind |-> kind, pos |-> pos, r |-> r, t |-> t,
     region |-> region, type |-> type, bound |-> bound]

Positions(sel) == [i \in 1..Len(sel) |-> i]

\* for r in rs: if r != 0
RegionGroups(rs) ==
    IF IsNone(rs) THEN <<>>
    ELSE LET sel == Get(rs)
             keep == SelectSeq(Positions(sel), LAMBDA i : sel[i] # 0)
         IN  [k \in DOMAIN keep |->
                Group("region", keep[k], Some(sel[keep[k]]), None,
                      GetChestRegionName(sel[keep[k]]), GetChestWildCardName,
                      TRUE)]

\* for t in ts: if t != 0.  The type name of the rows is taken from r, the
\* variable of the loop over rs: the last element of rs if that loop ran,
\* and unbound (an UnboundLocalError when the name is evaluated) if not.
TypeGroups(ts, rs) ==
    IF IsNone(ts) THEN <<>>
    ELSE LET sel == Get(ts)
             keep == SelectSeq(Positions(sel), LAMBDA i : sel[i] # 0)
             bound == ~IsNone(rs) /\ Len(Get(rs)) > 0
         IN  [k \in DOMAIN keep |->
                Group("type", keep[k], None, Some(sel[keep[k]]),
                      GetChestWildCardName,
                      IF bound THEN GetChestTypeName(Last(Get(rs)))
                      ELSE GetChestWildCardName,
                      bound)]

\* faulty variant of PairGroups: a pair is skipped if either component is 0
PairGroupsEitherZero(ps) ==
    IF IsNone(ps) THEN <<>>
    ELSE LET sel == Get(ps)
             keep == SelectSeq(Positions(sel),
                               LAMBDA i : ~(sel[i][1] = 0 \/ sel[i][2] = 0))
         IN  [k \in DOMAIN keep |->
                Group("pair", keep[k], Some(sel[keep[k]][1]),
                      Some(sel[keep[k]][2]),
                      GetChestRegionName(sel[keep[k]][1]),
                      GetChestTypeName(sel[keep[k]][2]), TRUE)]

\* for p in ps: if not (p[0] == 0 and p[1] == 0)
PairGroups(ps) ==
    IF IsNone(ps) THEN <<>>
    ELSE LET sel == Get(ps)
             keep == SelectSeq(Positions(sel),
                               LAMBDA i : ~(sel[i][1] = 0 /\ sel[i][2] = 0))
         IN  [k \in DOMAIN keep |->
                Group("pair", keep[k], Some(sel[keep[k]][1]),
                      Some(sel[keep[k]][2]),
                      GetChestRegionName(sel[keep[k]][1]),
                      GetChestTypeName(sel[keep[k]][2]), TRUE)]

\* faulty variant of GroupList: the loop over the types comes first
GroupListTypesFirst(rs, ts, ps) ==
    TypeGroups(ts, rs) \o RegionGroups(rs) \o PairGroups(ps)

\* the groups in the order of the three loops
GroupList(rs, ts, ps) ==
    RegionGroups(rs) \o TypeGroups(ts, rs) \o PairGroups(ps)

\* faulty variant of Record: the row starts a new table
RecordReplacing(acc, o, cid, g, pheno_name, k) ==
    CASE o.kind = "raise" -> [acc EXCEPT !.err = o.err]
      [] o.kind = "none" -> acc
      [] o.kind = "row" ->
           [acc EXCEPT
              !.df = add_pheno(<<>>, cid, g.region, g.type, pheno_name, o.val),
              !.prov = <<[kind |-> g.kind, pos |-> g.pos,
                          r |-> g.r, t |-> g.t, k |-> k]>>]

\* if pheno_val is not None: self.add_pheno([chest_region, chest_type],
\* pheno_name, pheno_val), for the outcome o of the k-th name on group g
Record(acc, o, cid, g, pheno_name, k) ==
    CASE o.kind = "raise" -> [acc EXCEPT !.err = o.err]
      [] o.kind = "none" -> acc
      [] o.kind = "row" ->
           [acc EXCEPT
              !.df = add_pheno(@, cid, g.region, g.type, pheno_name, o.val),
              !.prov = Append(@, [kind |-> g.kind, pos |-> g.pos,
                                  r |-> g.r, t |-> g.t, k |-> k])]

\* for n in phenos_to_compute: self.add_pheno_group(ct, mask, ..., n),
\* from the k-th name on; stops at the first exception
RECURSIVE RunPhenos(_, _, _, _, _, _)
RunPhenos(acc, env, mask, g, phenos, k) ==
    IF k > Len(phenos) \/ acc.err # "ok" THEN acc
    ELSE IF ~g.bound THEN [acc EXCEPT !.err = "UnboundLocalError"]
    ELSE RunPhenos(
           Record(acc,
                  PhenoOutcome(env.ct, mask, phenos[k], env.spacing, env.lib),
                  env.cid, g, phenos[k], k),
           env, mask, g, phenos, k + 1)

\* the three loops over the groups, from the j-th group on
RECURSIVE RunGroups(_, _, _, _, _)
RunGroups(acc, env, groups, phenos, j) ==
    IF j > Len(groups) \/ acc.err # "ok" THEN acc
    ELSE LET g == groups[j]
             mask == get_mask(env.lm, g.r, g.t)
             got == [acc EXCEPT
                       !.masks = Append(@, [kind |-> g.kind, pos |-> g.pos,
                                            r |-> g.r, t |-> g.t])]
         IN  RunGroups(RunPhenos(got, env, mask, g, phenos, 1),
                       env, groups, phenos, j + 1)

\* The outcome of one call of execute on an engine whose table is table:
\* the table afterwards, the exception raised ("ok": none), and, for the
\* record, the masks computed and the origin of every row appended.
ExecuteOutcome(table, self, a, lib) ==
    LET start == [df |-> table, err |-> "ok", masks |-> <<>>, prov |-> <<>>,
                  entered |-> FALSE]
        phenos == ResolvePhenos(a.pheno_names, self.requested_pheno_names)
        rs == ResolveSelector(a.chest_regions, self.chest_regions_)
        ts == ResolveSelector(a.chest_types, self.chest_types_)
        ps == ResolveSelector(a.pairs, self.pairs_)
        eff == Effective(rs, ts, ps, a.lm)
        env == [ct |-> a.ct, lm |-> a.lm, spacing |-> a.spacing,
                cid |-> a.cid, lib |-> lib]
    IN  IF CheckDimensions(a.ct, a.lm) # "ok"
        THEN [start EXCEPT !.err = CheckDimensions(a.ct, a.lm)]
        ELSE IF CheckCid(a.cid) # "ok"
        THEN [start EXCEPT !.err = CheckCid(a.cid)]
        ELSE RunGroups([start EXCEPT !.entered = TRUE], env,
                       GroupList(eff.rs, eff.ts, eff.ps), phenos, 1)

----------------------------------------------------------------------------
(* Inputs *)

Vol(shape, data) == [shape |-> shape, data |-> data]
Cid(isStr, text) == [isStr |-> isStr, text |-> text]

\* constructor arguments
CtorRegionArgs == {None, Some(<<2>>)}
CtorTypeArgs == {None, Some(<<1>>)}
CtorPairArgs == {None, Some(<< <<2, 1>> >>)}
CtorPhenoArgs == {None, Some(<<"Mass", "Volume">>)}

\* constructor arguments with codes outside [0, 255]
WideRegionArgs ==
    {None, Some(<<2>>), Some(<<0, 255>>), Some(<<1, 300>>), Some(<<-1>>),
     Some(<<256>>)}
WideTypeArgs ==
    {None, Some(<<1>>), Some(<<255, 0>>), Some(<<256, 1>>), Some(<<3, -1>>)}
WidePairArgs ==
    {None, Some(<< <<1, 1>> >>), Some(<< <<0, 255>>, <<2, 1>> >>),
     Some(<< <<300, 1>> >>), Some(<< <<1, -1>> >>), Some(<< <<1, 256>> >>)}

\* CT volumes, all of shape (2, 2, 2)
Cts == {Vol(<<2, 2, 2>>, <<-1000, -1000>>), Vol(<<2, 2, 2>>, <<-990, -400>>)}

\* label maps of the shape of the CT volumes
MatchedLms == {Vol(<<2, 2, 2>>, << <<1, 1>>, <<1, 1>> >>),
               Vol(<<2, 2, 2>>, << <<1, 1>>, <<2, 0>> >>)}

\* label maps of another shape, or of another rank
MismatchedLms == {Vol(<<3, 2, 2>>, << <<1, 1>>, <<2, 0>> >>),
                  Vol(<<2, 3, 2>>, << <<1, 1>>, <<2, 0>> >>),
                  Vol(<<2, 2, 3>>, << <<1, 1>>, <<2, 0>> >>),
                  Vol(<<2, 1, 2>>, << <<1, 1>>, <<2, 0>> >>),
                  Vol(<<2, 2>>, << <<1, 1>>, <<2, 0>> >>)}

GoodCid == Cid(TRUE, "case1")
BadCid == Cid(FALSE, "17")

\* (ct, lm, spacing, cid) of a call
Worlds ==
    {[ct |-> c, lm |-> l, spacing |-> <<1, 2, 3>>, cid |-> GoodCid] :
        c \in Cts, l \in MatchedLms}
    \cup {[ct |-> c, lm |-> l, spacing |-> <<1, 2, 3>>, cid |-> GoodCid] :
        c \in {Vol(<<2, 2, 2>>, <<-990, -400>>)}, l \in MismatchedLms}
    \cup {[ct |-> Vol(<<2, 2, 2>>, <<-990, -400>>),
           lm |-> Vol(<<2, 2, 2>>, << <<1, 1>>, <<2, 0>> >>),
           spacing |-> <<1, 2, 3>>, cid |-> BadCid]}

\* selectors and phenotype names of a call
RegionArgs == {None, Some(<<2, 0, 1>>)}
TypeArgs == {None, Some(<<0, 1, 2>>)}
PairArgs == {None, Some(<< <<0, 0>>, <<1, 0>>, <<2, 1>> >>)}
PhenoArgs == {None, Some(<<"Volume">>), Some(<<"Mass", "LAA950">>),
              Some(<<"Volume", "Bogus", "Mass">>), Some(<<"HUMin500", "HUMin">>)}

\* HU values on both sides of every threshold of add_pheno_group
HUs == {-1024, -1000, -950, -500, -99, -98, 18, 19, 100, 101}

\* CT volumes of shape (1, 2, 2): two voxels drawn from HUs, two of background
ValueCts == {Vol(<<1, 2, 2>>, <<x, y>>) : x, y \in HUs}

\* label maps of that shape: the two leading voxels in one structure, or in two
ValueLms == {Vol(<<1, 2, 2>>, << <<1, 1>>, <<1, 1>> >>),
             Vol(<<1, 2, 2>>, << <<1, 1>>, <<2, 0>> >>)}

Spacings == {<<1, 1, 1>>, <<1, 2, 3>>}

ValueWorlds ==
    {[ct |-> c, lm |-> l, spacing |-> s, cid |-> GoodCid] :
        c \in ValueCts, l \in ValueLms, s \in Spacings}

\* selectors of these calls: none (everything in the label map), or regions,
\* types and pairs with a structure that is absent from the label map
ValueRegionArgs == {None, Some(<<1, 3>>)}
ValueTypeArgs == {None}
ValuePairArgs == {None, Some(<< <<2, 0>>, <<0, 0>> >>)}

----------------------------------------------------------------------------
(* The state machine *)

NoArgs == [chest_regions |-> None, chest_types |-> None, pairs |-> None,
           pheno_names |-> None]

Self == [chest_regions_ |-> chest_regions_, chest_types_ |-> chest_types_,
         pairs_ |-> pairs_, requested_pheno_names |-> requested_pheno_names]

Init ==
    /\ engine = "new"
    /\ ctorErr = "ok"
    /\ ctorArgs = NoArgs
    /\ chest_regions_ = None
    /\ chest_types_ = None
    /\ pairs_ = None
    /\ requested_pheno_names = None
    /\ cid_ = None
    /\ spacing_ = None
    /\ df = <<>>
    /\ frame = None

\* the record of a call: its arguments, the table before and after it, the
\* exception it ended with, the masks it computed and the origin of its rows
FrameOf(a, before, out) ==
    [args |-> a, before |-> before, after |-> out.df, err |-> out.err,
     entered |-> out.entered, masks |-> out.masks, prov |-> out.prov]

\* ParenchymaPhenotypes(chest_regions, chest_types, pairs, pheno_names) with
\* the arguments drawn from R, T, P and N
New(R, T, P, N) ==
    /\ engine = "new"
    /\ \E r \in R, t \in T, p \in P, n \in N :
        \E e \in InitOutcomes(r, t, p) :
          /\ ctorArgs' = [chest_regions |-> r, chest_types |-> t,
                          pairs |-> p, pheno_names |-> n]
          /\ ctorErr' = e
          /\ IF e = "ok"
             THEN /\ engine' = "ready"
                  /\ chest_regions_' = r
                  /\ chest_types_' = t
                  /\ pairs_' = p
                  /\ requested_pheno_names' = n
             ELSE /\ engine' = "failed"
                  /\ UNCHANGED <<chest_regions_, chest_types_, pairs_,
                                 requested_pheno_names>>
    /\ UNCHANGED <<cid_, spacing_, df, frame>>

Construct == New(CtorRegionArgs, CtorTypeArgs, CtorPairArgs, CtorPhenoArgs)

\* execute(ct, lm, cid, spacing, chest_regions, chest_types, pairs,
\* pheno_names), up to its return or to the exception that ends it, with the
\* arguments drawn from W, R, T, P and N
Run(W, R, T, P, N) ==
    /\ engine = "ready"
    /\ IsNone(frame)
    /\ Len(df) <= MaxRows
    /\ \E w \in W, r \in R, t \in T, p \in P, n \in N, lib \in LibBehaviours :
        LET a == [ct |-> w.ct, lm |-> w.lm, spacing |-> w.spacing,
                  cid |-> w.cid, chest_regions |-> r, chest_types |-> t,
                  pairs |-> p, pheno_names |-> n]
        IN  /\ frame' = Some(FrameOf(a, df, ExecuteOutcome(df, Self, a, lib)))
            /\ df' = Get(frame').after
            /\ cid_' = IF Get(frame').entered THEN Some(a.cid) ELSE cid_
            /\ spacing_' = IF Get(frame').entered THEN Some(a.spacing)
                           ELSE spacing_
    /\ UNCHANGED <<engine, ctorErr, ctorArgs, chest_regions_, chest_types_,
                   pairs_, requested_pheno_names>>

Execute == Run(Worlds, RegionArgs, TypeArgs, PairArgs, PhenoArgs)

\* the call is over: the caller holds the table (or the exception) and the
\* arguments and locals of the call are gone
Return ==
    /\ ~IsNone(frame)
    /\ frame' = None
    /\ UNCHANGED <<engine, ctorErr, ctorArgs, chest_regions_, chest_types_,
                   pairs_, requested_pheno_names, cid_, spacing_, df>>

Next == Construct \/ Execute \/ Return

Spec == Init /\ [][Next]_vars

\* The constructor alone, over a wider range of selector arguments
ConstructAny == New(WideRegionArgs, WideTypeArgs, WidePairArgs, CtorPhenoArgs)

NextInit == ConstructAny

SpecInit == Init /\ [][NextInit]_vars

\* The engine over a range of HU values, masks and spacings: volumes of one
\* shape, every phenotype of the catalog computed in every call
ConstructPlain == New({None}, {None}, {None}, {None})

ExecuteValues ==
    Run(ValueWorlds, ValueRegionArgs, ValueTypeArgs, ValuePairArgs, {None})

NextValues == ConstructPlain \/ ExecuteValues \/ Return

SpecValues == Init /\ [][NextValues]_vars

----------------------------------------------------------------------------
(* Vocabulary of the properties *)

HasFrame == ~IsNone(frame)
F == Get(frame)

\* the i-th row appended by the last call, and where it came from
NewRow(i) == df[Len(F.before) + i]
Origin(i) == F.prov[i]
SameGroup(p, q) == p.kind = q.kind /\ p.pos = q.pos

\* the number of True voxels of the mask of the group a row came from
MaskCount(p) == Cardinality(get_mask(F.args.lm, p.r, p.t).idx)

\* the phenotype names in effect in the last call
EffPhenos ==
    IF ~IsNone(F.args.pheno_names) THEN Get(F.args.pheno_names)
    ELSE IF ~IsNone(requested_pheno_names) THEN Get(requested_pheno_names)
    ELSE declare_pheno_names

HasInvalidName == \E k \in DOMAIN EffPhenos : ~InCatalog(EffPhenos[k])
FirstInvalid ==
    CHOOSE k \in DOMAIN EffPhenos :
        /\ ~InCatalog(EffPhenos[k])
        /\ \A j \in 1..(k - 1) : InCatalog(EffPhenos[j])

CatalogIndex(n) ==
    CHOOSE k \in DOMAIN declare_pheno_names : declare_pheno_names[k] = n

\* the codes of the masks the last call computed, by kind, in order
RegionCodes ==
    LET ms == SelectSeq(F.masks, LAMBDA m : m.kind = "region")
    IN  [i \in DOMAIN ms |-> Get(ms[i].r)]
TypeCodes ==
    LET ms == SelectSeq(F.masks, LAMBDA m : m.kind = "type")
    IN  [i \in DOMAIN ms |-> Get(ms[i].t)]
PairCodes ==
    LET ms == SelectSeq(F.masks, LAMBDA m : m.kind = "pair")
    IN  [i \in DOMAIN ms |-> <<Get(ms[i].r), Get(ms[i].t)>>]

NonZero(sel) == SelectSeq(sel, LAMBDA c : c # 0)
NotBothZero(sel) == SelectSeq(sel, LAMBDA c : ~(c[1] = 0 /\ c[2] = 0))

\* got is what a loop over want computes: all of it, or, if the call ended
\* with an exception, the part it got to
Processed(got, want) == IsPrefix(got, want) /\ (F.err = "ok" => got = want)

\* the selector the caller means for one kind: the argument of the call if
\* there is one, else the constructor's
Chosen(arg, ctor) == IF ~IsNone(arg) THEN arg ELSE ctor

RegionsGiven == ~IsNone(Chosen(F.args.chest_regions, chest_regions_))
TypesGiven == ~IsNone(Chosen(F.args.chest_types, chest_types_))
PairsGiven == ~IsNone(Chosen(F.args.pairs, pairs_))
AnyGiven == RegionsGiven \/ TypesGiven \/ PairsGiven

Labels(lm) == {LabelAt(lm, i) : i \in 1..NumVoxels(lm)}

Rank(kind) == CASE kind = "region" -> 1 [] kind = "type" -> 2 [] kind = "pair" -> 3

OutOfRange(c) == c < 0 \/ c > 255

----------------------------------------------------------------------------
(* Properties *)

\* C1: execute appends no row, whatever the phenotype name, for a structure
\* whose mask has no True voxel.
C1_NoRowForEmptyMask ==
    HasFrame => \A i \in DOMAIN F.prov : MaskCount(Origin(i)) > 0

\* C2: a call whose CT volume and label map differ in shape, along whichever
\* axis, fails with a dimension error at entry: no mask has been computed and
\* no row has been appended.
C2_MismatchFailsAtEntry ==
    HasFrame /\ F.args.ct.shape # F.args.lm.shape =>
        /\ F.err \in {"CT and label map are not the same dimension",
                      "Disagreement in CT and label map dimension"}
        /\ F.masks = <<>>
        /\ df = F.before

\* C3: the constructor fails if a supplied region code, type code or element of a pair is outside
\* [0, 255], and succeeds if every supplied code is inside, whichever of the
\* three kinds are supplied.
C3_InitRangeCheck ==
    engine # "new" =>
        LET bad ==
              \/ /\ ~IsNone(ctorArgs.chest_regions)
                 /\ \E i \in DOMAIN Get(ctorArgs.chest_regions) :
                        OutOfRange(Get(ctorArgs.chest_regions)[i])
              \/ /\ ~IsNone(ctorArgs.chest_types)
                 /\ \E i \in DOMAIN Get(ctorArgs.chest_types) :
                        OutOfRange(Get(ctorArgs.chest_types)[i])
              \/ /\ ~IsNone(ctorArgs.pairs)
                 /\ \E i \in DOMAIN Get(ctorArgs.pairs) :
                        \/ OutOfRange(Get(ctorArgs.pairs)[i][1])
                        \/ OutOfRange(Get(ctorArgs.pairs)[i][2])
        IN  IF bad THEN engine = "failed" ELSE engine = "ready"

\* C4 (as claimed): a call whose phenotype names include one outside the
\* catalog, and which fails for it, leaves the table exactly as it was before
\* the call.
C4_InvalidNameLeavesTable ==
    HasFrame /\ HasInvalidName /\ F.err = "Invalid phenotype name" =>
        df = F.before

\* C4 (amended): a name outside the catalog is detected only when the first
\* group processed reaches it.  A call that processes no group returns
\* without an error; otherwise the call fails in its first group, and the rows
\* appended before the failure stay: when it fails for the invalid name, they
\* are the rows of that group for names preceding the first invalid one, and
\* the table before the call is a prefix of the table after it.
C4_InvalidNameFailsLate ==
    HasFrame /\ F.entered /\ HasInvalidName =>
        /\ IsPrefix(F.before, df)
        /\ Len(df) = Len(F.before) + Len(F.prov)
        /\ Len(F.masks) <= 1
        /\ (F.err = "ok") = (F.masks = <<>>)
        /\ F.err = "Invalid phenotype name" =>
              \A i \in DOMAIN F.prov :
                  /\ Origin(i).k < FirstInvalid
                  /\ SameGroup(Origin(i), F.masks[1])
                  /\ NewRow(i).pheno = EffPhenos[Origin(i).k]

\* C4 witness: a call failed for an invalid name after it had appended a row
\* to a table that already held rows.
C4_Witness ==
    /\ HasFrame
    /\ F.err = "Invalid phenotype name"
    /\ Len(F.before) > 0
    /\ Len(df) > Len(F.before)

\* C5: for each of the three kinds, the codes execute processes are those of
\* the argument of the call when there is one, else those of the constructor
\* when it gave some: the masks computed for the kind are the ones of that
\* selector, in its order (zeros skipped), up to the point the call got to.
C5_SelectorPrecedence ==
    HasFrame /\ F.entered =>
        /\ RegionsGiven =>
              Processed(RegionCodes,
                        NonZero(Get(Chosen(F.args.chest_regions, chest_regions_))))
        /\ TypesGiven =>
              Processed(TypeCodes,
                        NonZero(Get(Chosen(F.args.chest_types, chest_types_))))
        /\ PairsGiven =>
              Processed(PairCodes,
                        NotBothZero(Get(Chosen(F.args.pairs, pairs_))))

\* C5 witness: a call that ran to its end with regions given both to the call
\* and, differently, to the constructor, and types given to the constructor
\* alone.
C5_Witness ==
    /\ HasFrame
    /\ F.err = "ok"
    /\ ~IsNone(F.args.chest_regions)
    /\ ~IsNone(chest_regions_)
    /\ F.args.chest_regions # chest_regions_
    /\ IsNone(F.args.chest_types)
    /\ ~IsNone(chest_types_)
    /\ Len(RegionCodes) > 0
    /\ Len(TypeCodes) > 0

\* C6: the fallback to everything present in the label map is taken exactly
\* when no kind is given to the call or to the constructor; when some kind is
\* given, a kind that is not given is not processed.
C6_Fallback ==
    HasFrame /\ F.entered =>
        IF AnyGiven
        THEN /\ ~RegionsGiven => RegionCodes = <<>>
             /\ ~TypesGiven => TypeCodes = <<>>
             /\ ~PairsGiven => PairCodes = <<>>
        ELSE /\ Processed(RegionCodes,
                          SetToSorted({l[1] : l \in Labels(F.args.lm)} \ {0}))
             /\ Processed(TypeCodes,
                          SetToSorted({l[2] : l \in Labels(F.args.lm)} \ {0}))
             /\ {PairCodes[i] : i \in DOMAIN PairCodes}
                    \subseteq Labels(F.args.lm) \ {<<0, 0>>}
             /\ F.err = "ok" =>
                    /\ {PairCodes[i] : i \in DOMAIN PairCodes}
                          = Labels(F.args.lm) \ {<<0, 0>>}
                    /\ Len(PairCodes) = Cardinality(Labels(F.args.lm) \ {<<0, 0>>})

\* C6 witness: a call with nothing given anywhere ran to its end and computed
\* masks of the three kinds.
C6_Witness ==
    /\ HasFrame
    /\ F.entered
    /\ ~AnyGiven
    /\ F.err = "ok"
    /\ Len(RegionCodes) > 1
    /\ Len(TypeCodes) > 0
    /\ Len(PairCodes) > 1

\* C7: every row of a region-only group of code r is keyed (name of region r,
\* wildcard) and every row of a type-only group of code t is keyed (wildcard,
\* name of type t).
C7_WildcardKeys ==
    HasFrame =>
        \A i \in DOMAIN F.prov :
            /\ Origin(i).kind = "region" =>
                  /\ NewRow(i).region = GetChestRegionName(Get(Origin(i).r))
                  /\ NewRow(i).type = GetChestWildCardName
            /\ Origin(i).kind = "type" =>
                  /\ NewRow(i).region = GetChestWildCardName
                  /\ NewRow(i).type = GetChestTypeName(Get(Origin(i).t))

\* C8: among the rows one call appends, the rows of region-only groups come
\* before those of type-only groups, which come before those of pair groups,
\* and within a kind the groups come in the order of their codes in the
\* selector.
C8_GroupOrder ==
    HasFrame =>
        /\ Len(df) = Len(F.before) + Len(F.prov)
        /\ \A i, j \in DOMAIN F.prov :
              i < j =>
                \/ Rank(Origin(i).kind) < Rank(Origin(j).kind)
                \/ /\ Origin(i).kind = Origin(j).kind
                   /\ Origin(i).pos <= Origin(j).pos

\* C8 witness: a call appended rows of two region groups, of two type groups
\* and of two pair groups.
C8_Witness ==
    /\ HasFrame
    /\ F.err = "ok"
    /\ \A kind \in {"region", "type", "pair"} :
          \E i, j \in DOMAIN F.prov :
              /\ Origin(i).kind = kind
              /\ Origin(j).kind = kind
              /\ Origin(i).pos < Origin(j).pos

\* C9 (as claimed): within a group the rows come in catalog order, also when
\* the names were supplied in another order.
C9_CatalogOrder ==
    HasFrame =>
        \A i, j \in DOMAIN F.prov :
            i < j /\ SameGroup(Origin(i), Origin(j)) =>
                CatalogIndex(NewRow(i).pheno) < CatalogIndex(NewRow(j).pheno)

\* C9 (amended): within a group the rows come in the order of the phenotype
\* names in effect: the list given to the call, else the list given to the
\* constructor, else the catalog.
C9_RequestOrder ==
    HasFrame =>
        /\ Len(df) = Len(F.before) + Len(F.prov)
        /\ \A i \in DOMAIN F.prov :
              /\ Origin(i).k \in DOMAIN EffPhenos
              /\ NewRow(i).pheno = EffPhenos[Origin(i).k]
        /\ \A i, j \in DOMAIN F.prov :
              i < j /\ SameGroup(Origin(i), Origin(j)) =>
                  Origin(i).k < Origin(j).k

\* C9 witness: a call given the names out of catalog order appended the rows
\* of one group in the order given.
C9_Witness ==
    /\ HasFrame
    /\ Len(F.prov) >= 2
    /\ SameGroup(Origin(1), Origin(2))
    /\ CatalogIndex(NewRow(1).pheno) > CatalogIndex(NewRow(2).pheno)

\* C10: whatever step is taken, the table before it is a prefix of the table
\* after it: rows are only appended, never changed, moved or removed.
C10_AppendOnly == [][IsPrefix(df, df')]_vars

\* C10 witness: a call appended rows to a table that already held rows.
C10_Witness ==
    /\ HasFrame
    /\ Len(F.before) > 0
    /\ Len(df) > Len(F.before)
    /\ IsPrefix(F.before, df)

----------------------------------------------------------------------------
(* Properties of the values *)

\* the voxels of the mask of a group of the last call, and their HU values
MaskIdx(m) == get_mask(F.args.lm, m.r, m.t).idx
HU(i) == CtAt(F.args.ct, i)

SameShape == F.args.ct.shape = F.args.lm.shape

\* the name list positions of the rows the last call appended for group m
RowNames(m) == {Origin(i).k : i \in {j \in DOMAIN F.prov : SameGroup(Origin(j), m)}}

\* the type name of the rows of group m is defined: m is no type-only group,
\* or a region selector (given, or taken from the label map) was iterated
NameDefined(m) ==
    \/ m.kind # "type"
    \/ ~AnyGiven
    \/ RegionsGiven /\ Len(Get(Chosen(F.args.chest_regions, chest_regions_))) > 0

\* the mask of m is not empty and none of its voxels has HU <= -500
AllAbove500(m) == MaskIdx(m) # {} /\ \A i \in MaskIdx(m) : HU(i) > -500

\* C11: in a call on volumes of one shape with all names in the catalog, for
\* every group whose mask is not empty and has no voxel of HU <= -500 (and
\* whose row key is defined), no row is appended for any of the eight
\* '...500' names, one row is appended for every other requested name, and
\* the call does not end with an exception in that group.
C11_Restricted500Undefined ==
    HasFrame /\ F.entered /\ SameShape /\ ~HasInvalidName =>
        \A j \in DOMAIN F.masks :
            AllAbove500(F.masks[j]) /\ NameDefined(F.masks[j]) =>
                /\ RowNames(F.masks[j]) =
                      {k \in DOMAIN EffPhenos : EffPhenos[k] \notin Names500}
                /\ j < Len(F.masks) \/ F.err = "ok"

\* C11 witness: a call over the whole catalog ran to its end and processed a
\* group with no voxel of HU <= -500 next to a group that has such voxels.
C11_Witness ==
    /\ HasFrame
    /\ F.err = "ok"
    /\ EffPhenos = declare_pheno_names
    /\ \E j, l \in DOMAIN F.masks :
          /\ AllAbove500(F.masks[j])
          /\ Cardinality(RowNames(F.masks[j])) = 19
          /\ Cardinality(RowNames(F.masks[l])) = 27

FractionNames ==
    {"LAA950", "LAA910", "LAA856", "HAA700", "HAA600", "HAA500", "HAA250"}

\* C13: the value of every row of a threshold phenotype (LAA950, LAA910,
\* LAA856, HAA700, HAA600, HAA500, HAA250) for a structure with at least one
\* masked voxel is a quotient count/n with 0 <= count <= n: it lies in [0, 1].
C13_FractionInUnitInterval ==
    HasFrame =>
        \A i \in DOMAIN F.prov :
            NewRow(i).pheno \in FractionNames /\ MaskCount(Origin(i)) > 0 =>
                /\ NewRow(i).val.tag = "frac"
                /\ NewRow(i).val.b > 0
                /\ 0 <= NewRow(i).val.a
                /\ NewRow(i).val.a <= NewRow(i).val.b

\* C13 witness: one call appended a threshold row of value 0, one of value 1
\* and one of value 1/2.
C13_Witness ==
    /\ HasFrame
    /\ \E i \in DOMAIN F.prov :
          /\ NewRow(i).pheno \in FractionNames
          /\ NewRow(i).val.a = 0
          /\ NewRow(i).val.b = 2
    /\ \E i \in DOMAIN F.prov :
          /\ NewRow(i).pheno \in FractionNames
          /\ NewRow(i).val.a = 1
          /\ NewRow(i).val.b = 2
    /\ \E i \in DOMAIN F.prov :
          /\ NewRow(i).pheno \in FractionNames
          /\ NewRow(i).val.a = 2
          /\ NewRow(i).val.b = 2

\* the pairs execute iterates over in the last call: the selector in effect,
\* or, when nothing is given anywhere, the pairs present in the label map
PairsInEffect ==
    IF PairsGiven THEN {Get(Chosen(F.args.pairs, pairs_))[i] :
                          i \in DOMAIN Get(Chosen(F.args.pairs, pairs_))}
    ELSE IF AnyGiven THEN {}
    ELSE Labels(F.args.lm)

OneZero(p) == (p[1] = 0) # (p[2] = 0)

\* group m is a region-only group of code 0, a type-only group of code 0 or
\* the group of the pair (0, 0)
ZeroGroup(m) ==
    \/ m.kind = "region" /\ Get(m.r) = 0
    \/ m.kind = "type" /\ Get(m.t) = 0
    \/ m.kind = "pair" /\ Get(m.r) = 0 /\ Get(m.t) = 0

\* C14: execute computes no mask and appends no row for region code 0 of the
\* region selector, type code 0 of the type selector or the pair (0, 0) of
\* the pair selector, while a pair with exactly one zero component is
\* processed like any other pair: in a call that runs to its end its mask is
\* requested with its region and its type, and the rows of a pair group are
\* keyed by the names of the two codes.
C14_ZeroSkipped ==
    HasFrame =>
        /\ \A j \in DOMAIN F.masks : ~ZeroGroup(F.masks[j])
        /\ \A i \in DOMAIN F.prov :
              /\ ~ZeroGroup(Origin(i))
              /\ \E j \in DOMAIN F.masks : SameGroup(Origin(i), F.masks[j])
              /\ Origin(i).kind = "pair" =>
                    /\ NewRow(i).region = GetChestRegionName(Get(Origin(i).r))
                    /\ NewRow(i).type = GetChestTypeName(Get(Origin(i).t))
        /\ F.entered /\ F.err = "ok" =>
              \A p \in PairsInEffect :
                  OneZero(p) =>
                      \E j \in DOMAIN F.masks :
                          /\ F.masks[j].kind = "pair"
                          /\ F.masks[j].r = Some(p[1])
                          /\ F.masks[j].t = Some(p[2])

\* C14 witness: a call whose region selector holds 0, whose type selector
\* holds 0 and whose pair selector holds (0, 0) and a pair with one zero
\* component ran to its end, and appended a row for that pair.
C14_Witness ==
    /\ HasFrame
    /\ F.err = "ok"
    /\ RegionsGiven /\ TypesGiven /\ PairsGiven
    /\ \E i \in DOMAIN Get(Chosen(F.args.chest_regions, chest_regions_)) :
          Get(Chosen(F.args.chest_regions, chest_regions_))[i] = 0
    /\ \E i \in DOMAIN Get(Chosen(F.args.chest_types, chest_types_)) :
          Get(Chosen(F.args.chest_types, chest_types_))[i] = 0
    /\ <<0, 0>> \in PairsInEffect
    /\ \E i \in DOMAIN F.prov :
          /\ Origin(i).kind = "pair"
          /\ OneZero(<<Get(Origin(i).r), Get(Origin(i).t)>>)

\* the sum of f over the set S
RECURSIVE SumOver(_, _)
SumOver(S, f) ==
    IF S = {} THEN 0
    ELSE LET x == CHOOSE y \in S : TRUE IN f[x] + SumOver(S \ {x}, f)

\* C15: in every Mass row (of a call on volumes of one shape) the four
\* intervals HU < -98, -98 <= HU <= 18, 18 < HU <= 100 and HU > 100 take
\* each masked voxel exactly once: the voxel counts of the four intervals are
\* those of the masked voxels in each interval and add up to the size of the
\* mask, so that no voxel outside the mask is counted; the HU sum of each
\* interval is that of its masked voxels, a voxel below -1000 entering the
\* first sum as -1000; and each voxel is weighted by the voxel volume.
C15_MassPartition ==
    HasFrame /\ SameShape =>
        \A i \in DOMAIN F.prov :
            NewRow(i).pheno = "Mass" =>
                LET idx == MaskIdx(Origin(i))
                    I1 == {j \in idx : HU(j) < -98}
                    I2 == {j \in idx : HU(j) >= -98 /\ HU(j) <= 18}
                    I3 == {j \in idx : HU(j) > 18 /\ HU(j) <= 100}
                    I4 == {j \in idx : HU(j) > 100}
                    hu == [j \in idx |-> HU(j)]
                    floored == [j \in idx |->
                                  IF HU(j) < -1000 THEN -1000 ELSE HU(j)]
                    v == NewRow(i).val
                IN  /\ v.tag = "mass"
                    /\ v.a = F.args.spacing[1] * F.args.spacing[2]
                                * F.args.spacing[3]
                    /\ v.s = <<Cardinality(I1), SumOver(I1, floored),
                               Cardinality(I2), SumOver(I2, hu),
                               Cardinality(I3), SumOver(I3, hu),
                               Cardinality(I4), SumOver(I4, hu)>>
                    /\ v.s[1] + v.s[3] + v.s[5] + v.s[7] = Cardinality(idx)

\* C15 witness: the Mass row of a mask of one voxel, of -1024 HU, in a volume
\* whose other voxels are outside the mask, and, in the same call, the Mass
\* row of a mask whose voxel is at the boundary -98.
C15_Witness ==
    /\ HasFrame
    /\ F.err = "ok"
    /\ F.args.ct.data = <<-1024, -98>>
    /\ \E i, j \in DOMAIN F.prov :
          /\ NewRow(i).pheno = "Mass"
          /\ NewRow(j).pheno = "Mass"
          /\ NewRow(i).val.s = <<1, -1000, 0, 0, 0, 0, 0, 0>>
          /\ NewRow(j).val.s = <<0, 0, 1, -98, 0, 0, 0, 0>>

====
